---- MODULE Spec2Model ----
(***************************************************************************)
(* A model of the markdown leaf-block parsers of crates/compiler.          *)
(*                                                                         *)
(* A character is a one-element string; the three characters that cannot   *)
(* be written inside a string are named: "CR" is '\r', "LF" is '\n' and    *)
(* "BT" is the backtick.  Every character of the model is one byte long,   *)
(* so byte offsets and character counts agree.                             *)
(*                                                                         *)
(* An input (`MarkDownInput`, `TokenStream`) is a record                   *)
(*     [start |-> absolute byte offset, text |-> sequence of characters].  *)
(* A parser is an operator from an input to a result record: on success    *)
(*     [ok |-> TRUE, val |-> node, rest |-> cursor after the parse],       *)
(* on failure                                                              *)
(*     [ok |-> FALSE, panic |-> FALSE, kind, cf, span, rest],              *)
(* and when the code panics [ok |-> FALSE, panic |-> TRUE, rest].          *)
(***************************************************************************)
EXTENDS Integers, Sequences, FiniteSets, TLC

VARIABLES src, input, pc, rule, result

vars == <<src, input, pc, rule, result>>

-----------------------------------------------------------------------------
(* Bounds of the model. *)

\* longest text of an enumerated thematic-break input
MaxLen == 5

\* longest text after the indentation or the pound run of a structured input
MaxTail == 3

\* longest indentation of a structured input
MaxIndent == 4

\* longest text of an enumerated fenced-code input
MaxFenceLen == 10

-----------------------------------------------------------------------------
(* Characters. *)

CR == "CR"
LF == "LF"
BT == "BT"
BS == "\\"

\* char::is_whitespace, on the characters of the model
WhiteSpace == {" ", CR, LF}

\* |c| c != '\n' && c != '\r' && c.is_whitespace()
InlineSpace == WhiteSpace \ {CR, LF}

ThematicAlphabet == {" ", "-", "*", "_", LF, CR, "a"}
HeadingAlphabet == {" ", "#", "a", LF, CR}
FenceAlphabet == {"~", BT, "a"}
EntityAlphabet == {"&", ";", "a", "m", "p", "A"}
EscapedAlphabet == {BS, "*", "<", "[", BT, ".", "#", "&", LF, CR, "a"}
Chars ==
    ThematicAlphabet \cup HeadingAlphabet \cup FenceAlphabet \cup EntityAlphabet
        \cup EscapedAlphabet

\* every text over the alphabet A of length at most n
TextsUpTo(A, n) == UNION {[1..k -> A] : k \in 0..n}

Repeat(c, n) == [k \in 1..n |-> c]

\* absolute offsets at which an enumerated input starts
Starts == {0, 2}

-----------------------------------------------------------------------------
(* Input and Span. *)

Recovable == "Recovable"
Fatal == "Fatal"

MkInput(start, text) == [start |-> start, text |-> text]

InputLen(i) == Len(i.text)

IsEmpty(i) == Len(i.text) = 0

InputEnd(i) == i.start + Len(i.text)

\* Span::Range(start..end)
ToSpan(i) == <<i.start, i.start + Len(i.text)>>

SpanUnion(a, b) ==
    <<IF a[1] < b[1] THEN a[1] ELSE b[1], IF a[2] > b[2] THEN a[2] ELSE b[2]>>

\* split_to(n): <<the first n bytes, self advanced past them>>
SplitTo(i, n) ==
    <<MkInput(i.start, SubSeq(i.text, 1, n)),
      MkInput(i.start + n, SubSeq(i.text, n + 1, Len(i.text)))>>

\* split_off(n): <<everything after position n, self truncated to the first n>>
SplitOff(i, n) ==
    <<MkInput(i.start + n, SubSeq(i.text, n + 1, Len(i.text))),
      MkInput(i.start, SubSeq(i.text, 1, n))>>

Ok(val, rest) == [ok |-> TRUE, val |-> val, rest |-> rest]

Err(kind, cf, span, rest) ==
    [ok |-> FALSE, panic |-> FALSE, kind |-> kind, cf |-> cf, span |-> span,
     rest |-> rest]

Panic(rest) == [ok |-> FALSE, panic |-> TRUE, rest |-> rest]

IsErr(r) == ~r.ok /\ ~r.panic

None == <<>>
Some(v) == <<v>>
IsNone(o) == o = <<>>
IsSome(o) == o # <<>>

-----------------------------------------------------------------------------
(* Combinator primitives of parserc. *)

\* length of the maximal prefix of text made of characters of the set S
PrefixLen(text, S) ==
    CHOOSE n \in 0..Len(text) :
        /\ \A k \in 1..n : text[k] \in S
        /\ n = Len(text) \/ text[n + 1] \notin S

\* take_while(|c| c in S): never fails, the run may be empty
TakeWhile(i, S) ==
    LET p == SplitTo(i, PrefixLen(i.text, S)) IN Ok(p[1], p[2])

\* take_till(|c| c in S): the maximal run of characters outside S
TakeTill(i, S) == TakeWhile(i, Chars \ S)

\* token!(Name, |c| c in S): a non-empty run of characters of S
Token(i, S) ==
    LET n == PrefixLen(i.text, S) IN
    IF n = 0 THEN Err("Token", Recovable, ToSpan(i), i)
    ELSE LET p == SplitTo(i, n) IN Ok(p[1], p[2])

\* keyword!(Name, kw): the literal kw
Keyword(i, kw) ==
    IF Len(i.text) >= Len(kw) /\ SubSeq(i.text, 1, Len(kw)) = kw
    THEN LET p == SplitTo(i, Len(kw)) IN Ok(p[1], p[2])
    ELSE Err("Keyword", Recovable, ToSpan(i), i)

\* next_if(|c| c in S): one character of S
NextIf(i, S) ==
    IF Len(i.text) > 0 /\ i.text[1] \in S
    THEN LET p == SplitTo(i, 1) IN Ok(p[1], p[2])
    ELSE Err("NextIf", Recovable, ToSpan(i), i)

\* next(c): the character c; a failure spans the character that is not c
NextChar(i, c) ==
    IF Len(i.text) > 0 /\ i.text[1] = c
    THEN LET p == SplitTo(i, 1) IN Ok(p[1], p[2])
    ELSE LET n == IF Len(i.text) > 0 THEN 1 ELSE 0 IN
         Err("Next", Recovable, <<i.start, i.start + n>>, i)

\* offsets at which kw occurs in text
Occurrences(text, kw) ==
    {k \in 0..(Len(text) - Len(kw)) : SubSeq(text, k + 1, k + Len(kw)) = kw}

\* take_until(kw): the text before the first occurrence of kw, kw not consumed
TakeUntil(i, kw) ==
    LET occ == Occurrences(i.text, kw) IN
    IF occ = {} THEN Err("TakeUntil", Recovable, ToSpan(i), i)
    ELSE LET k == CHOOSE k \in occ : \A j \in occ : k <= j
             p == SplitTo(i, k)
         IN Ok(p[1], p[2])

\* Parser::ok() and Option<T>: a Recoverable failure of r, which was parsed
\* from the cursor i, becomes None with the cursor back at i
Optional(i, r) ==
    IF r.ok THEN Ok(Some(r.val), r.rest)
    ELSE IF r.cf = Recovable THEN Ok(None, i)
    ELSE r

\* ParseError::map_err(kind.map()): the rule's kind, same control flow and span
MapKind(r, kind) == IF r.ok THEN r ELSE [r EXCEPT !.kind = kind]

-----------------------------------------------------------------------------
(* Token-level lexemes (s.rs). *)

\* Span::None
NoSpan == <<>>

SpanUnionOpt(a, b) ==
    IF a = NoSpan THEN b ELSE IF b = NoSpan THEN a ELSE SpanUnion(a, b)

SpanLen(sp) == IF sp = NoSpan THEN 0 ELSE sp[2] - sp[1]

\* S: a possibly empty run of non-line-breaking whitespace
S_parse(i) == TakeWhile(i, InlineSpace)

\* Identation: the separator of thematic-break runs, a non-empty run of
\* non-line-breaking whitespace
Identation_parse(i) ==
    LET r == TakeWhile(i, InlineSpace) IN
    IF IsEmpty(r.val) THEN Err("S", Recovable, ToSpan(r.val), r.rest) ELSE r

\* LimitsTo<T, N>: T, failing when its span is longer than n
LimitsTo(r, n) ==
    IF ~r.ok THEN r
    ELSE IF SpanLen(ToSpan(r.val)) > n
         THEN Err("LimitsTo", Recovable, ToSpan(r.val), r.rest)
         ELSE r

\* LimitsFrom<T, N>: T, failing when its span is shorter than n
LimitsFrom(r, n) ==
    IF ~r.ok THEN r
    ELSE IF SpanLen(ToSpan(r.val)) < n
         THEN Err("LimitsFrom", Recovable, ToSpan(r.val), r.rest)
         ELSE r

\* Limits<T, MIN, MAX>: T, failing when its span is shorter than lo or longer
\* than hi
Limits(r, lo, hi) ==
    IF ~r.ok THEN r
    ELSE IF SpanLen(ToSpan(r.val)) < lo \/ SpanLen(ToSpan(r.val)) > hi
         THEN Err("Limits", Recovable, ToSpan(r.val), r.rest)
         ELSE r

\* IndentationTo<I, N>
IndentationTo(i, n) == MapKind(LimitsTo(S_parse(i), n), "LeadingWhiteSpace")

\* the second keyword taken for a lone '\r'
LineEnding_parse_Mut(i) ==
    LET lf == Keyword(i, <<LF>>)
        crlf == Keyword(i, <<CR>>)
    IN IF lf.ok THEN Ok([variant |-> "LF", input |-> lf.val], lf.rest)
       ELSE IF crlf.ok THEN Ok([variant |-> "CrLf", input |-> crlf.val], crlf.rest)
       ELSE MapKind(crlf, "LineEnding")

\* LineEnding: LF, or else CrLf
LineEnding_parse(i) ==
    LET lf == Keyword(i, <<LF>>)
        crlf == Keyword(i, <<CR, LF>>)
    IN IF lf.ok THEN Ok([variant |-> "LF", input |-> lf.val], lf.rest)
       ELSE IF crlf.ok THEN Ok([variant |-> "CrLf", input |-> crlf.val], crlf.rest)
       ELSE MapKind(crlf, "LineEnding")

\* Option<LineEnding>
OptLineEnding(i) == Optional(i, LineEnding_parse(i))

\* Option<LineEnding>::to_span
OptLineEndingSpan(o) == IF IsNone(o) THEN NoSpan ELSE ToSpan(o[1].input)

-----------------------------------------------------------------------------
(* Thematic breaks (thematic.rs). *)

\* ThematicChars::parse: Stars, or else Underscores, or else Minus
ThematicChars_parse(i) ==
    LET stars == Token(i, {"*"})
        underscores == Token(i, {"_"})
        minus == Token(i, {"-"})
    IN IF stars.ok THEN Ok([class |-> "Stars", input |-> stars.val], stars.rest)
       ELSE IF underscores.ok
            THEN Ok([class |-> "Underscores", input |-> underscores.val],
                    underscores.rest)
       ELSE IF minus.ok THEN Ok([class |-> "Minus", input |-> minus.val], minus.rest)
       ELSE minus

\* Minus given the value of Stars
Value_Mut(t) ==
    CASE t.class = "Stars" -> 1
      [] t.class = "Underscores" -> 2
      [] t.class = "Minus" -> 1

\* ThematicChars::value
Value(t) ==
    CASE t.class = "Stars" -> 1
      [] t.class = "Underscores" -> 2
      [] t.class = "Minus" -> 3

\* a run counted as one character whatever its length
CharsLen_Mut(t) == 1

\* ThematicChars::len
CharsLen(t) == InputLen(t.input)

\* Punctuated<ThematicChars, Identation>::parse: T P T P ... with an optional
\* unpaired trailing T
RECURSIVE Punctuated_parse(_, _)
Punctuated_parse(i, pairs) ==
    LET t == Optional(i, ThematicChars_parse(i)) IN
    IF IsNone(t.val) THEN Ok([pairs |-> pairs, tail |-> None], i)
    ELSE LET p == Optional(t.rest, Identation_parse(t.rest)) IN
         IF IsNone(p.val)
         THEN Ok([pairs |-> pairs, tail |-> Some(t.val[1])], t.rest)
         ELSE Punctuated_parse(p.rest, Append(pairs, <<t.val[1], p.val[1]>>))

RECURSIVE PairsSpan(_)
PairsSpan(pairs) ==
    IF pairs = <<>> THEN NoSpan
    ELSE SpanUnionOpt(SpanUnion(ToSpan(pairs[1][1].input), ToSpan(pairs[1][2])),
                      PairsSpan(Tail(pairs)))

\* Punctuated::to_span
PunctuatedSpan(b) ==
    SpanUnionOpt(PairsSpan(b.pairs),
                 IF IsNone(b.tail) THEN NoSpan ELSE ToSpan(b.tail[1].input))

RECURSIVE PairsLen(_)
PairsLen(pairs) ==
    IF pairs = <<>> THEN 0 ELSE CharsLen(pairs[1][1]) + PairsLen(Tail(pairs))

\* the end-of-line check left out
ThematicFinish_Mut(ident, breaks, i) ==
    LET le == OptLineEnding(i) IN
    Ok([ident_whitespaces |-> ident, breaks |-> breaks, line_ending |-> le.val],
       le.rest)

\* the line ending and the end-of-line check that close ThematicBreaks::parse
ThematicFinish(ident, breaks, i) ==
    LET le == OptLineEnding(i) IN
    IF IsNone(le.val) /\ ~IsEmpty(le.rest)
    THEN Err("Thematic", Recovable, PunctuatedSpan(breaks), le.rest)
    ELSE Ok([ident_whitespaces |-> ident, breaks |-> breaks,
             line_ending |-> le.val], le.rest)

\* ThematicBreaks::parse
ThematicBreaks_parse(i) ==
    LET ident == IndentationTo(i, 3) IN
    IF ~ident.ok THEN ident
    ELSE
    LET p == Punctuated_parse(ident.rest, <<>>)
        breaks == p.val
    IN
    IF breaks.pairs = <<>>
    THEN IF IsSome(breaks.tail)
         THEN IF CharsLen(breaks.tail[1]) < 3
              THEN Err("Thematic", Recovable, ToSpan(breaks.tail[1].input), p.rest)
              ELSE ThematicFinish(ident.val, breaks, p.rest)
         ELSE Err("Thematic", Recovable, ToSpan(ident.val), p.rest)
    ELSE
    LET id == Value(breaks.pairs[1][1])
        bad == {k \in 1..Len(breaks.pairs) : Value(breaks.pairs[k][1]) # id}
        len == PairsLen(breaks.pairs)
               + (IF IsSome(breaks.tail) THEN CharsLen(breaks.tail[1]) ELSE 0)
    IN
    IF bad # {}
    THEN LET k == CHOOSE k \in bad : \A j \in bad : k <= j IN
         Err("Thematic", Recovable, ToSpan(breaks.pairs[k][1].input), p.rest)
    ELSE IF IsSome(breaks.tail) /\ Value(breaks.tail[1]) # id
    THEN Err("Thematic", Recovable, ToSpan(breaks.tail[1].input), p.rest)
    ELSE IF len < 3
    THEN Err("Thematic", Recovable, PunctuatedSpan(breaks), p.rest)
    ELSE ThematicFinish(ident.val, breaks, p.rest)

\* ThematicBreaks::to_span
ThematicBreaks_to_span(n) ==
    SpanUnionOpt(ToSpan(n.ident_whitespaces), PunctuatedSpan(n.breaks))

-----------------------------------------------------------------------------
(* ATX headings (header.rs) and the leading-pounds token (tokens.rs). *)

\* Limits::<Pounds<_>, 1, 7>
MinPounds == 1

\* a run of seven pounds refused
MaxPounds_Mut == 7 - 1

MaxPounds == 7

\* a run of seven pounds let through
PoundsBelow_Mut == 6 + 2

\* LeadingPounds::parse: `len < 1 || !(len < 6)`
PoundsBelow == 6

\* the failure reported over the whole heading content
ATXHeading_parse_Mut(i) ==
    LET ident == MapKind(IndentationTo(i, 3), "ATXHeading") IN
    IF ~ident.ok THEN ident
    ELSE
    LET pounds == MapKind(Limits(Token(ident.rest, {"#"}), 1, 7), "ATXHeading") IN
    IF ~pounds.ok THEN pounds
    ELSE
    LET line == TakeWhile(pounds.rest, Chars \ {CR, LF})
        le == OptLineEnding(line.rest)
        sep == TakeWhile(line.val, WhiteSpace)
    IN
    IF IsEmpty(sep.val) /\ IsNone(le.val)
    THEN Err("ATXHeading", Recovable, ToSpan(line.val), le.rest)
    ELSE Ok([ident_whitespaces |-> ident.val, leading_pounds |-> pounds.val,
             seperate |-> sep.val, content |-> sep.rest, line_ending |-> le.val],
            le.rest)

\* ATXHeading::parse
ATXHeading_parse(i) ==
    LET ident == MapKind(IndentationTo(i, 3), "ATXHeading") IN
    IF ~ident.ok THEN ident
    ELSE
    LET pounds == MapKind(Limits(Token(ident.rest, {"#"}), MinPounds, MaxPounds),
                          "ATXHeading")
    IN
    IF ~pounds.ok THEN pounds
    ELSE
    LET line == TakeWhile(pounds.rest, Chars \ {CR, LF})
        le == OptLineEnding(line.rest)
        sep == TakeWhile(line.val, WhiteSpace)
    IN
    IF IsEmpty(sep.val) /\ IsNone(le.val)
    THEN Err("ATXHeading", Recovable, ToSpan(sep.val), le.rest)
    ELSE Ok([ident_whitespaces |-> ident.val, leading_pounds |-> pounds.val,
             seperate |-> sep.val, content |-> sep.rest, line_ending |-> le.val],
            le.rest)

\* LeadingPounds::parse
LeadingPounds_parse(i) ==
    LET content == TakeWhile(i, {"#"})
        len == SpanLen(ToSpan(content.val))
    IN
    IF len < 1 \/ ~(len < PoundsBelow)
    THEN Err("LeadingPounds", Recovable, ToSpan(content.val), content.rest)
    ELSE content

-----------------------------------------------------------------------------
(* Fenced code blocks (code.rs). *)

\* a run of two fence characters taken for a fence
MinFence_Mut == 3 - 1

\* shortest run of fence characters that is a fence
MinFence == 3

\* Fenced::parse
Fenced_parse(i) ==
    LET start == NextIf(i, {BT, "~"}) IN
    IF ~start.ok THEN start
    ELSE
    LET next == start.val.text[1]
        trailing == TakeWhile(start.rest, {next})
        sp == SplitOff(i, InputLen(trailing.val) + 1)
        content == sp[2]
    IN
    IF InputLen(content) < MinFence
    THEN Err("FencedCodeBlock", Recovable, ToSpan(content), sp[1])
    ELSE Ok(content, sp[1])

\* take_until without ok(): a fence that is never closed is an error
FencedCodeBlock_parse_Mut(i) ==
    LET start == Fenced_parse(i) IN
    IF ~start.ok THEN start
    ELSE
    LET body == TakeUntil(start.rest, start.val.text) IN
    IF ~body.ok THEN MapKind(body, "FencedCodeBlock")
    ELSE LET end == Fenced_parse(body.rest) IN
         IF ~end.ok THEN end
         ELSE IF InputLen(start.val) # InputLen(end.val) THEN Panic(end.rest)
         ELSE Ok([start |-> start.val, body |-> body.val, end |-> Some(end.val)],
                 end.rest)

\* FencedCodeBlock::parse
FencedCodeBlock_parse(i) ==
    LET start == Fenced_parse(i) IN
    IF ~start.ok THEN start
    ELSE
    LET body == Optional(start.rest, TakeUntil(start.rest, start.val.text)) IN
    IF IsSome(body.val)
    THEN LET end == Fenced_parse(body.rest) IN
         IF ~end.ok THEN end
         ELSE IF InputLen(start.val) # InputLen(end.val) THEN Panic(end.rest)
         ELSE Ok([start |-> start.val, body |-> body.val[1], end |-> Some(end.val)],
                 end.rest)
    ELSE LET sp == SplitOff(start.rest, 0) IN
         Ok([start |-> start.val, body |-> sp[1], end |-> None], sp[2])

-----------------------------------------------------------------------------
(* Entities (entity.rs). *)

\* NAMES: the entries of the table of named character references that can be
\* written with the characters of the model; the table also lists the legacy
\* names that have no semicolon
NAMES ==
    {<<"&", "a", "m", "p", ";">>, <<"&", "A", "M", "P", ";">>,
     <<"&", "a", "p", ";">>, <<"&", "m", "a", "p", ";">>,
     <<"&", "M", "a", "p", ";">>, <<"&", "m", "p", ";">>,
     <<"&", "p", "m", ";">>, <<"&", "a", "m", "p">>, <<"&", "A", "M", "P">>}

MAX_ENTITY_LEN == 100

\* the literal of the span of a reference that has no semicolon
MissingSpanCap == 100

Min(a, b) == IF a < b THEN a ELSE b

\* the loop over iter_indices: Some(index + 1) for the first ';' met before
\* an index greater than MAX_ENTITY_LEN, None when there is none
ScanSemi(i) ==
    LET found == {k \in 0..(Len(i.text) - 1) :
                     /\ ~(k > MAX_ENTITY_LEN)
                     /\ i.text[k + 1] = ";"}
    IN IF found = {} THEN None
       ELSE Some((CHOOSE k \in found : \A j \in found : k <= j) + 1)

\* a reference without a semicolon reported as an alternative that did not match
EntityMissing_Mut(i) ==
    Err("Entity", Recovable,
        <<i.start, i.start + Min(MissingSpanCap, InputLen(i))>>, i)

\* the `let Some(last) = last else` branch
EntityMissing(i) ==
    Err("Entity", Fatal,
        <<i.start, i.start + Min(MissingSpanCap, InputLen(i))>>, i)

\* an unknown name reported as an alternative that did not match
EntityLookup_Mut(i, last) ==
    LET p == SplitTo(i, last) IN
    IF p[1].text \notin NAMES
    THEN Err("Entity", Recovable, ToSpan(p[1]), p[2])
    ELSE Ok(p[1], p[2])

\* split_to(last) and the lookup of the isolated text in NAMES
EntityLookup(i, last) ==
    LET p == SplitTo(i, last) IN
    IF p[1].text \notin NAMES
    THEN Err("Entity", Fatal, ToSpan(p[1]), p[2])
    ELSE Ok(p[1], p[2])

\* Entity::parse; next('&') is parsed on a clone of the cursor
Entity_parse(i) ==
    LET amp == NextChar(i, "&")
        last == ScanSemi(i)
    IN
    IF ~amp.ok THEN Err("Entity", amp.cf, amp.span, i)
    ELSE IF IsNone(last) THEN EntityMissing(i)
    ELSE EntityLookup(i, last[1])

-----------------------------------------------------------------------------
(* Backslash escapes (escaped.rs). *)

\* the match without its arm for '&'
EscapedVariant_Mut(c) ==
    CASE c = "*" -> "Star"
      [] c = "<" -> "Lt"
      [] c = "[" -> "Square"
      [] c = BT -> "Backtick"
      [] c = "." -> "Dot"
      [] c = "#" -> "Pound"
      [] c = BS -> "Backslash"
      [] OTHER -> "none"

\* the arms of `match input.iter().next()`; "none" is the arm `_`
EscapedVariant(c) ==
    CASE c = "*" -> "Star"
      [] c = "<" -> "Lt"
      [] c = "[" -> "Square"
      [] c = BT -> "Backtick"
      [] c = "." -> "Dot"
      [] c = "#" -> "Pound"
      [] c = "&" -> "And"
      [] c = BS -> "Backslash"
      [] OTHER -> "none"

\* a failure that puts the cursor back where the call found it
EscapedFail_Mut(start, i) == Err("Escaped", Recovable, ToSpan(start), start)

\* the failure of the arm `_`: start is the clone taken on entry, i the cursor
EscapedFail(start, i) == Err("Escaped", Recovable, ToSpan(start), i)

\* Escaped::parse; the line ending is the LineEnding of escaped.rs, which
\* tries LF and then CrLf as the one of s.rs does
Escaped_parse(i) ==
    LET bs == NextChar(i, BS) IN
    IF ~bs.ok THEN bs
    ELSE
    LET cur == bs.rest
        variant == IF IsEmpty(cur) THEN "none" ELSE EscapedVariant(cur.text[1])
    IN
    IF variant # "none"
    THEN Ok([variant |-> variant, input |-> SplitTo(i, 2)[1]], SplitTo(cur, 1)[2])
    ELSE
    LET line_ending == Optional(cur, LineEnding_parse(cur)) IN
    IF ~line_ending.ok THEN line_ending
    ELSE IF IsSome(line_ending.val)
    THEN LET len == IF line_ending.val[1].variant = "LF" THEN 1 ELSE 2 IN
         Ok([variant |-> "HardlineBreak", input |-> SplitTo(i, len + 1)[1]],
            line_ending.rest)
    ELSE EscapedFail(i, line_ending.rest)

-----------------------------------------------------------------------------
(* The lexemes of tokens.rs. *)

\* LineEnding::parse of tokens.rs: CRLR, or else LR
NewLine_parse(i) ==
    LET crlr == Keyword(i, <<CR, LF>>)
        lr == Keyword(i, <<LF>>)
    IN IF crlr.ok THEN Ok([variant |-> "CRLR", input |-> crlr.val], crlr.rest)
       ELSE IF lr.ok THEN Ok([variant |-> "LR", input |-> lr.val], lr.rest)
       ELSE MapKind(lr, "NewLine")

\* token!(S, |c| c != '\r' && c != '\n' && c.is_whitespace())
S_token(i) == Token(i, InlineSpace)

\* LeadingWhiteSpace<I, N>
LeadingWhiteSpace_parse(i, n) ==
    MapKind(LimitsTo(S_token(i), n), "LeadingWhiteSpace")

-----------------------------------------------------------------------------
(* Indented code (code.rs). *)

\* IndentationFrom<I, N>
IndentationFrom(i, n) == MapKind(LimitsFrom(S_parse(i), n), "LeadingWhiteSpace")

\* the N of the indentation of a line of indented code
CodeIndent == 4

\* the span of an empty content without the clamp to the end of the input
EmptyContentSpan_Mut(i) == <<i.start, i.start + 2>>

\* Span::Range(input.start()..cmp::min(input.start() + 2, input.end()))
EmptyContentSpan(i) == <<i.start, Min(i.start + 2, InputEnd(i))>>

\* IndentedNonblankLine::parse
IndentedNonblankLine_parse(i) ==
    LET identation ==
            MapKind(IndentationFrom(i, CodeIndent), "IdentationNonblankChunk")
    IN
    IF ~identation.ok THEN identation
    ELSE
    LET content == TakeTill(identation.rest, {CR, LF}) IN
    IF IsEmpty(content.val)
    THEN Err("IdentationNonblankChunk", Recovable,
             EmptyContentSpan(content.rest), content.rest)
    ELSE
    LET line_ending ==
            MapKind(OptLineEnding(content.rest), "IdentationNonblankChunk")
    IN
    IF ~line_ending.ok THEN line_ending
    ELSE Ok([identation |-> identation.val,
             content |-> content.val,
             line_ending |-> line_ending.val],
            line_ending.rest)

\* a blank line whose whitespace is limited to 3 columns
IndentedBlankLine_parse_Mut(i) ==
    LET leading_whitespaces ==
            MapKind(LimitsTo(S_parse(i), 3), "IdentationNonblankChunk")
    IN
    IF ~leading_whitespaces.ok THEN leading_whitespaces
    ELSE
    LET line_ending ==
            MapKind(LineEnding_parse(leading_whitespaces.rest),
                    "IdentationNonblankChunk")
    IN
    IF ~line_ending.ok THEN line_ending
    ELSE Ok([leading_whitespaces |-> leading_whitespaces.val,
             line_ending |-> line_ending.val],
            line_ending.rest)

\* IndentedBlankLine, derived: the fields in order, S and then LineEnding,
\* every error mapped to the kind IdentationNonblankChunk
IndentedBlankLine_parse(i) ==
    LET leading_whitespaces == MapKind(S_parse(i), "IdentationNonblankChunk") IN
    IF ~leading_whitespaces.ok THEN leading_whitespaces
    ELSE
    LET line_ending ==
            MapKind(LineEnding_parse(leading_whitespaces.rest),
                    "IdentationNonblankChunk")
    IN
    IF ~line_ending.ok THEN line_ending
    ELSE Ok([leading_whitespaces |-> leading_whitespaces.val,
             line_ending |-> line_ending.val],
            line_ending.rest)

-----------------------------------------------------------------------------
(* Indented code blocks (code.rs). *)

\* an alternation that tries Blank from where NonBlank stopped
IdentedChunk_parse_Mut(i) ==
    LET nonblank == IndentedNonblankLine_parse(i) IN
    IF nonblank.ok
    THEN Ok([variant |-> "NonBlank", line |-> nonblank.val], nonblank.rest)
    ELSE IF nonblank.cf = Fatal THEN nonblank
    ELSE
    LET blank == IndentedBlankLine_parse(nonblank.rest) IN
    IF blank.ok
    THEN Ok([variant |-> "Blank", line |-> blank.val], blank.rest)
    ELSE blank

\* IdentedChunk, derived: NonBlank, or else Blank, each tried from the cursor
\* of the call; a Fatal failure ends the alternation
IdentedChunk_parse(i) ==
    LET nonblank == IndentedNonblankLine_parse(i) IN
    IF nonblank.ok
    THEN Ok([variant |-> "NonBlank", line |-> nonblank.val], nonblank.rest)
    ELSE IF nonblank.cf = Fatal THEN nonblank
    ELSE
    LET blank == IndentedBlankLine_parse(i) IN
    IF blank.ok
    THEN Ok([variant |-> "Blank", line |-> blank.val], blank.rest)
    ELSE blank

\* Vec<IdentedChunk>: chunks as long as one parses; a Recoverable failure
\* ends the list with the cursor where the failed chunk began
RECURSIVE VecIdentedChunk(_)
VecIdentedChunk(i) ==
    LET chunk == Optional(i, IdentedChunk_parse(i)) IN
    IF ~chunk.ok THEN chunk
    ELSE IF IsNone(chunk.val) THEN Ok(<<>>, chunk.rest)
    ELSE LET more == VecIdentedChunk(chunk.rest) IN
         IF ~more.ok THEN more
         ELSE Ok(<<chunk.val[1]>> \o more.val, more.rest)

\* a block that a blank line ends: non-blank lines only
RECURSIVE IndentedCodeBlock_parse_Mut(_)
IndentedCodeBlock_parse_Mut(i) ==
    LET line == Optional(i, IndentedNonblankLine_parse(i)) IN
    IF ~line.ok THEN line
    ELSE IF IsNone(line.val) THEN Ok(<<>>, line.rest)
    ELSE LET more == IndentedCodeBlock_parse_Mut(line.rest) IN
         IF ~more.ok THEN more
         ELSE Ok(<<[variant |-> "NonBlank", line |-> line.val[1]]>> \o more.val,
                 more.rest)

\* IndentedCodeBlock, derived: its one field
IndentedCodeBlock_parse(i) == VecIdentedChunk(i)

-----------------------------------------------------------------------------
(* to_span of the nodes. *)

\* LineEnding::to_span
LineEnding_to_span(n) == ToSpan(n.input)

\* ATXHeading::to_span: the separator is not in the union
ATXHeading_to_span(n) ==
    SpanUnionOpt(
        SpanUnionOpt(
            SpanUnionOpt(ToSpan(n.ident_whitespaces), ToSpan(n.leading_pounds)),
            ToSpan(n.content)),
        OptLineEndingSpan(n.line_ending))

\* IndentedNonblankLine::to_span
IndentedNonblankLine_to_span(n) ==
    SpanUnionOpt(SpanUnionOpt(ToSpan(n.identation), ToSpan(n.content)),
                 OptLineEndingSpan(n.line_ending))

\* IndentedBlankLine::to_span, derived: the union of the fields
IndentedBlankLine_to_span(n) ==
    SpanUnionOpt(ToSpan(n.leading_whitespaces), LineEnding_to_span(n.line_ending))

\* IdentedChunk::to_span, derived: the span of the variant's node
IdentedChunk_to_span(c) ==
    IF c.variant = "NonBlank" THEN IndentedNonblankLine_to_span(c.line)
    ELSE IndentedBlankLine_to_span(c.line)

\* IndentedCodeBlock::to_span, derived: the union of the chunks
RECURSIVE IndentedCodeBlock_to_span(_)
IndentedCodeBlock_to_span(chunks) ==
    IF chunks = <<>> THEN NoSpan
    ELSE SpanUnionOpt(IdentedChunk_to_span(chunks[1]),
                      IndentedCodeBlock_to_span(Tail(chunks)))

\* Fenced::to_span
Fenced_to_span(n) == ToSpan(n)

\* FencedCodeBlock::to_span
FencedCodeBlock_to_span(n) ==
    SpanUnionOpt(SpanUnionOpt(Fenced_to_span(n.start), ToSpan(n.body)),
                 IF IsNone(n.end) THEN NoSpan ELSE Fenced_to_span(n.end[1]))

\* Escaped::to_span
Escaped_to_span(n) == ToSpan(n.input)

\* Entity::to_span
Entity_to_span(n) == ToSpan(n)

-----------------------------------------------------------------------------
(* MarkDownError.  An error value is the record Err builds; its variant is  *)
(* its kind, and every kind that is not a variant of MarkDownError is a     *)
(* parserc Kind wrapped in MarkDownError::Kind.                             *)

OwnVariants ==
    {"LineEnding", "LeadingWhiteSpace", "LeadingPounds", "Escaped", "Entity",
     "Thematic", "S"}

\* Kind::control_flow, Kind::span, Kind::into_fatal
Kind_control_flow(k) == k.cf

Kind_span(k) == k.span

Kind_into_fatal(k) == [k EXCEPT !.cf = Fatal]

MarkDownError_control_flow(e) ==
    CASE e.kind \notin OwnVariants -> Kind_control_flow(e)
      [] e.kind = "LineEnding" -> e.cf
      [] e.kind = "LeadingWhiteSpace" -> e.cf
      [] e.kind = "LeadingPounds" -> e.cf
      [] e.kind = "Escaped" -> e.cf
      [] e.kind = "Entity" -> e.cf
      [] e.kind = "Thematic" -> e.cf
      [] e.kind = "S" -> e.cf

MarkDownError_into_fatal(e) ==
    CASE e.kind \notin OwnVariants -> Kind_into_fatal(e)
      [] e.kind = "S" -> Err("S", Fatal, e.span, e.rest)
      [] e.kind = "LineEnding" -> Err("LineEnding", Fatal, e.span, e.rest)
      [] e.kind = "LeadingWhiteSpace" ->
            Err("LeadingWhiteSpace", Fatal, e.span, e.rest)
      [] e.kind = "LeadingPounds" -> Err("LeadingPounds", Fatal, e.span, e.rest)
      [] e.kind = "Escaped" -> Err("Escaped", Fatal, e.span, e.rest)
      [] e.kind = "Entity" -> Err("Entity", Fatal, e.span, e.rest)
      [] e.kind = "Thematic" -> Err("Entity", Fatal, e.span, e.rest)

MarkDownError_span(e) ==
    CASE e.kind \notin OwnVariants -> Kind_span(e)
      [] e.kind = "S" -> e.span
      [] e.kind = "LineEnding" -> e.span
      [] e.kind = "LeadingWhiteSpace" -> e.span
      [] e.kind = "LeadingPounds" -> e.span
      [] e.kind = "Escaped" -> e.span
      [] e.kind = "Entity" -> e.span
      [] e.kind = "Thematic" -> e.span

-----------------------------------------------------------------------------
(* The state machine: a rule is applied once to a cursor over the source. *)

Inputs(texts) == {MkInput(s, t) : s \in Starts, t \in texts}

InitWith(inputs) ==
    /\ src \in inputs
    /\ input = src
    /\ pc = "ready"
    /\ rule = "none"
    /\ result = None

\* the call `rule::parse(&mut input)`, r being its outcome
Apply(name, r) ==
    /\ pc = "ready"
    /\ pc' = "done"
    /\ rule' = name
    /\ result' = r
    /\ input' = r.rest
    /\ UNCHANGED src

ParseThematicBreaks == Apply("ThematicBreaks", ThematicBreaks_parse(input))

\* every short text, and short texts behind the longest indentation
ThematicTexts ==
    TextsUpTo(ThematicAlphabet, MaxLen)
    \cup {Repeat(" ", MaxIndent) \o t : t \in TextsUpTo(ThematicAlphabet, MaxTail)}

InitThematic == InitWith(Inputs(ThematicTexts))

NextThematic == ParseThematicBreaks

SpecThematic == InitThematic /\ [][NextThematic]_vars

-----------------------------------------------------------------------------
(* Headings: indentation, a pound run and a short tail. *)

\* longest pound run of an enumerated heading input
MaxPoundRun == 8

HeadingTexts ==
    {Repeat(" ", a) \o Repeat("#", b) \o t :
        a \in 0..MaxIndent, b \in 0..MaxPoundRun,
        t \in TextsUpTo(HeadingAlphabet, MaxTail)}

ParseATXHeading == Apply("ATXHeading", ATXHeading_parse(input))

ParseLeadingPounds == Apply("LeadingPounds", LeadingPounds_parse(input))

InitHeading == InitWith(Inputs(HeadingTexts))

NextHeading == ParseATXHeading \/ ParseLeadingPounds

SpecHeading == InitHeading /\ [][NextHeading]_vars

-----------------------------------------------------------------------------
(* Fenced code blocks: every text over the fence alphabet. *)

ParseFencedCodeBlock == Apply("FencedCodeBlock", FencedCodeBlock_parse(input))

InitFenced == InitWith(Inputs(TextsUpTo(FenceAlphabet, MaxFenceLen)))

NextFenced == ParseFencedCodeBlock

SpecFenced == InitFenced /\ [][NextFenced]_vars

-----------------------------------------------------------------------------
(* The fence alone: every short text over the fence alphabet. *)

\* longest text of an enumerated input of Fenced::parse
MaxFenceRun == 5

ParseFenced == Apply("Fenced", Fenced_parse(input))

InitFence == InitWith(Inputs(TextsUpTo(FenceAlphabet, MaxFenceRun)))

NextFence == ParseFenced

SpecFence == InitFence /\ [][NextFence]_vars

-----------------------------------------------------------------------------
(* Entities: every short text, and references as long as the scan reaches. *)

\* longest text of an enumerated entity input
MaxEntityLen == 5

\* longest run of letters after the '&' of a long reference
MaxNameRun == 101

EntityTexts ==
    TextsUpTo(EntityAlphabet, MaxEntityLen)
    \cup {<<"&">> \o Repeat("a", n) \o t :
            n \in (MAX_ENTITY_LEN - 3)..MaxNameRun,
            t \in TextsUpTo({";", "a"}, 2)}

ParseEntity == Apply("Entity", Entity_parse(input))

InitEntity == InitWith(Inputs(EntityTexts))

NextEntity == ParseEntity

SpecEntity == InitEntity /\ [][NextEntity]_vars

-----------------------------------------------------------------------------
(* Backslash escapes: every short text over the escapes' alphabet. *)

\* longest text of an enumerated input of Escaped::parse
MaxEscapedLen == 3

ParseEscaped == Apply("Escaped", Escaped_parse(input))

InitEscaped == InitWith(Inputs(TextsUpTo(EscapedAlphabet, MaxEscapedLen)))

NextEscaped == ParseEscaped

SpecEscaped == InitEscaped /\ [][NextEscaped]_vars

-----------------------------------------------------------------------------
(* Lexemes: line endings and bounded indentation on indented short texts. *)

\* longest indentation of an enumerated lexeme input
MaxLexIndent == 6

LexemeAlphabet == {" ", "*", "a", CR, LF}

LexemeTexts ==
    {Repeat(" ", a) \o t :
        a \in 0..MaxLexIndent, t \in TextsUpTo(LexemeAlphabet, MaxTail)}

\* the N of the instances of IndentationTo and LeadingWhiteSpace
IndentLimits == {3, 5}

IndentationToName(n) ==
    CASE n = 3 -> "IndentationTo<3>" [] n = 5 -> "IndentationTo<5>"

LeadingWhiteSpaceName(n) ==
    CASE n = 3 -> "LeadingWhiteSpace<3>" [] n = 5 -> "LeadingWhiteSpace<5>"

ParseLineEnding == Apply("LineEnding", LineEnding_parse(input))

ParseNewLine == Apply("NewLine", NewLine_parse(input))

ParseIndentationTo ==
    \E n \in IndentLimits : Apply(IndentationToName(n), IndentationTo(input, n))

ParseLeadingWhiteSpace ==
    \E n \in IndentLimits :
        Apply(LeadingWhiteSpaceName(n), LeadingWhiteSpace_parse(input, n))

InitLexeme == InitWith(Inputs(LexemeTexts))

NextLexeme ==
    \/ ParseLineEnding
    \/ ParseNewLine
    \/ ParseIndentationTo
    \/ ParseLeadingWhiteSpace
    \/ ParseThematicBreaks

SpecLexeme == InitLexeme /\ [][NextLexeme]_vars

-----------------------------------------------------------------------------
(* Indented code: one line behind every indentation. *)

\* longest indentation of an enumerated line of indented code
MaxCodeIndent == 5

CodeAlphabet == {" ", "a", CR, LF}

CodeLineTexts ==
    {Repeat(" ", a) \o t :
        a \in 0..MaxCodeIndent, t \in TextsUpTo(CodeAlphabet, MaxTail)}

ParseIndentedNonblankLine ==
    Apply("IndentedNonblankLine", IndentedNonblankLine_parse(input))

ParseIndentedBlankLine ==
    Apply("IndentedBlankLine", IndentedBlankLine_parse(input))

InitIndented == InitWith(Inputs(CodeLineTexts))

NextIndented == ParseIndentedNonblankLine \/ ParseIndentedBlankLine

SpecIndented == InitIndented /\ [][NextIndented]_vars

-----------------------------------------------------------------------------
(* Indented code blocks: a few lines, each indented or not, blank or not. *)

\* most lines of an enumerated block input
MaxLines == 2

\* the lines: no indentation or an indentation around the 4 columns, then
\* nothing or a letter, then a line ending, a lone '\r' or nothing
BlockLines ==
    {Repeat(" ", a) \o c \o e :
        a \in {0} \cup 3..MaxCodeIndent,
        c \in {<<>>, <<"a">>},
        e \in {<<>>, <<LF>>, <<CR, LF>>, <<CR>>}}

RECURSIVE LinesUpTo(_)
LinesUpTo(n) ==
    IF n = 0 THEN {<<>>}
    ELSE LET shorter == LinesUpTo(n - 1) IN
         shorter \cup {l \o t : l \in BlockLines, t \in shorter}

\* the block of test_code_block, "hello" and "world" shortened to a letter
InterleavedBlock ==
    Repeat(" ", 5) \o <<"a", LF>> \o <<LF>> \o Repeat(" ", 3) \o <<LF>>
        \o Repeat(" ", 4) \o <<"a">>

BlockTexts ==
    LinesUpTo(MaxLines)
    \cup {InterleavedBlock, InterleavedBlock \o <<LF, "a">>}

ParseIdentedChunk == Apply("IdentedChunk", IdentedChunk_parse(input))

ParseIndentedCodeBlock ==
    Apply("IndentedCodeBlock", IndentedCodeBlock_parse(input))

InitBlock == InitWith(Inputs(BlockTexts))

NextBlock == ParseIdentedChunk \/ ParseIndentedCodeBlock

SpecBlock == InitBlock /\ [][NextBlock]_vars

-----------------------------------------------------------------------------
(* Every rule that returns a node, on inputs that begin as its nodes do. *)

\* longest text after the beginning of an enumerated node input
MaxNodeTail == 2

NodeAlphabet == {" ", "a", LF, CR, "*", "#", "~"}

NodePrefixes ==
    {<<>>,
     <<" ", " ", "*", "*", "*">>, <<"*", " ", "*", " ", "*">>,
     <<"#">>, <<" ", "#", "#", " ", "a">>, <<"#", "a">>,
     <<"~", "~", "~">>, <<BT, BT, BT, "a", BT, BT, BT>>,
     <<"~", "~", "~", LF, "a", LF, "~", "~", "~">>,
     <<BS, "*">>, <<BS>>, <<BS, CR, LF>>,
     <<"&", "a", "m", "p", ";">>, <<"&", "a", "p", ";">>,
     Repeat(" ", 4) \o <<"a">>, Repeat(" ", 5),
     Repeat(" ", 4) \o <<"a", LF, LF>>,
     <<LF>>, <<CR, LF>>}

NodeTexts ==
    {p \o t : p \in NodePrefixes, t \in TextsUpTo(NodeAlphabet, MaxNodeTail)}

InitNodes == InitWith(Inputs(NodeTexts))

NextNodes ==
    \/ ParseThematicBreaks
    \/ ParseATXHeading
    \/ ParseIndentedNonblankLine
    \/ ParseIndentedBlankLine
    \/ ParseIndentedCodeBlock
    \/ ParseFenced
    \/ ParseFencedCodeBlock
    \/ ParseEscaped
    \/ ParseEntity
    \/ ParseLineEnding

SpecNodes == InitNodes /\ [][NextNodes]_vars

-----------------------------------------------------------------------------
(* Error values: every variant, either control flow, every span of a short  *)
(* source.                                                                  *)

\* longest source an enumerated error's span lies in
MaxErrLen == 3

\* kinds of parserc the combinators of this crate raise
KindNames == {"Token", "NextIf"}

ErrorValues(i) ==
    {Err(k, cf, <<a, b>>, i) :
        k \in OwnVariants \cup KindNames,
        cf \in {Recovable, Fatal},
        a \in i.start..InputEnd(i),
        b \in i.start..InputEnd(i)}

InitErrors ==
    /\ src \in Inputs(TextsUpTo({"a"}, MaxErrLen))
    /\ input = src
    /\ pc = "raised"
    /\ rule = "none"
    /\ result \in {e \in ErrorValues(src) : e.span[1] <= e.span[2]}

IntoFatal ==
    /\ pc = "raised"
    /\ pc' = "fatal"
    /\ rule' = "into_fatal"
    /\ result' = MarkDownError_into_fatal(result)
    /\ UNCHANGED <<src, input>>

NextErrors == IntoFatal

SpecErrors == InitErrors /\ [][NextErrors]_vars

-----------------------------------------------------------------------------
(* Every rule on every enumerated input. *)

Init ==
    \/ InitThematic
    \/ InitHeading
    \/ InitFenced
    \/ InitFence
    \/ InitEntity
    \/ InitEscaped
    \/ InitLexeme
    \/ InitIndented
    \/ InitBlock
    \/ InitNodes
    \/ InitErrors

Next ==
    \/ ParseThematicBreaks
    \/ ParseATXHeading
    \/ ParseLeadingPounds
    \/ ParseFencedCodeBlock
    \/ ParseFenced
    \/ ParseEntity
    \/ ParseEscaped
    \/ ParseLineEnding
    \/ ParseNewLine
    \/ ParseIndentationTo
    \/ ParseLeadingWhiteSpace
    \/ ParseIndentedNonblankLine
    \/ ParseIndentedBlankLine
    \/ ParseIdentedChunk
    \/ ParseIndentedCodeBlock
    \/ IntoFatal

Spec == Init /\ [][Next]_vars

-----------------------------------------------------------------------------
(* The source text as the claims read it. *)

Delims == {"*", "_", "-"}

\* the text the cursor has moved over
Consumed == SubSeq(src.text, 1, input.start - src.start)

\* columns of leading non-line-breaking whitespace
IndentLen(text) == PrefixLen(text, InlineSpace)

AfterIndent(text) == SubSeq(text, IndentLen(text) + 1, Len(text))

\* the delimiter runs of the line and the whitespace between and after them
RunStretch(text) ==
    SubSeq(AfterIndent(text), 1, PrefixLen(AfterIndent(text), Delims \cup InlineSpace))

\* what follows the last delimiter run and its trailing whitespace
AfterStretch(text) ==
    SubSeq(AfterIndent(text), Len(RunStretch(text)) + 1, Len(AfterIndent(text)))

\* the delimiter characters used by the runs of the line
DelimClasses(text) ==
    {RunStretch(text)[k] : k \in DOMAIN RunStretch(text)} \cap Delims

\* the number of delimiter characters of the line, whitespace not counted
DelimCount(text) ==
    Cardinality({k \in DOMAIN RunStretch(text) : RunStretch(text)[k] \in Delims})

StartsWithLineEnding(text) ==
    \/ Len(text) >= 1 /\ text[1] = LF
    \/ Len(text) >= 2 /\ text[1] = CR /\ text[2] = LF

ThematicDone == pc = "done" /\ rule = "ThematicBreaks"

RecoverableThematic ==
    IsErr(result) /\ result.kind = "Thematic" /\ result.cf = Recovable

-----------------------------------------------------------------------------
(* Thematic breaks. *)

\* C1: ThematicBreaks::parse succeeds only if every delimiter run of the line,
\* each element of the pairs list and the unpaired tail, has the class of the
\* first run; a line whose runs use more than one class fails Recoverable, and
\* with kind Thematic once its indentation of at most 3 columns is accepted.
C1_SameClass ==
    ThematicDone =>
        /\ result.ok =>
            /\ Cardinality(DelimClasses(src.text)) = 1
            /\ LET b == result.val.breaks
                   runs == {b.pairs[k][1] : k \in DOMAIN b.pairs}
                           \cup {b.tail[k] : k \in DOMAIN b.tail}
               IN \A r \in runs : {r.input.text[k] : k \in DOMAIN r.input.text}
                                      = DelimClasses(src.text)
        /\ Cardinality(DelimClasses(src.text)) > 1 =>
            /\ IsErr(result)
            /\ result.cf = Recovable
            /\ IndentLen(src.text) <= 3 => result.kind = "Thematic"

\* "- * -" is rejected
C1_Witness ==
    /\ ThematicDone
    /\ src.text = <<"-", " ", "*", " ", "-">>
    /\ RecoverableThematic

\* C2: ThematicBreaks::parse succeeds only if the line holds at least 3
\* delimiter characters, whitespace not counted; with fewer it fails
\* Recoverable; a line of at most 3 columns of indentation, 3 or more
\* delimiter characters of one class in any number of runs, and then nothing
\* but a line ending or the end of input, succeeds.
C2_AtLeastThree ==
    ThematicDone =>
        /\ result.ok =>
            Cardinality({k \in DOMAIN Consumed : Consumed[k] \in Delims}) >= 3
        /\ DelimCount(src.text) < 3 => IsErr(result) /\ result.cf = Recovable
        /\ ( /\ IndentLen(src.text) <= 3
             /\ Cardinality(DelimClasses(src.text)) = 1
             /\ DelimCount(src.text) >= 3
             /\ \/ AfterStretch(src.text) = <<>>
                \/ StartsWithLineEnding(AfterStretch(src.text)) )
               => result.ok

\* "-- -" is accepted
C2_Witness ==
    /\ ThematicDone
    /\ src.text = <<"-", "-", " ", "-">>
    /\ result.ok
    /\ Len(result.val.breaks.pairs) = 1
    /\ IsSome(result.val.breaks.tail)

\* C3: a line on which something other than a line ending follows the last
\* delimiter run and its trailing whitespace is rejected Recoverable, and with
\* kind Thematic once its indentation of at most 3 columns is accepted; after
\* a success the cursor is at the end of input or right after the consumed
\* line ending.
C3_NothingAfterRuns ==
    ThematicDone =>
        /\ (AfterStretch(src.text) # <<>>
                /\ ~StartsWithLineEnding(AfterStretch(src.text))) =>
            /\ IsErr(result)
            /\ result.cf = Recovable
            /\ IndentLen(src.text) <= 3 => result.kind = "Thematic"
        /\ result.ok =>
            \/ IsEmpty(input)
            \/ /\ IsSome(result.val.line_ending)
               /\ input.start = ToSpan(result.val.line_ending[1].input)[2]
               /\ Consumed[Len(Consumed)] = LF

\* "---a" is rejected
C3_Witness ==
    /\ ThematicDone
    /\ src.text = <<"-", "-", "-", "a">>
    /\ RecoverableThematic
    /\ result.span = <<src.start, src.start + 3>>

-----------------------------------------------------------------------------
(* ATX headings. *)

\* length of the pound run that follows the indentation
PoundLen(text) == PrefixLen(AfterIndent(text), {"#"})

\* the text that follows the pound run
AfterPounds(text) ==
    SubSeq(AfterIndent(text), PoundLen(text) + 1, Len(AfterIndent(text)))

\* what follows the heading line: the text from its first CR or LF on
AfterLine(text) ==
    SubSeq(AfterPounds(text), PrefixLen(AfterPounds(text), Chars \ {CR, LF}) + 1,
           Len(AfterPounds(text)))

HeadingDone == pc = "done" /\ rule = "ATXHeading"

PoundsDone == pc = "done" /\ rule = "LeadingPounds"

\* C4: with at most 3 columns of indentation and a separator after it,
\* ATXHeading::parse accepts a pound run of every length from 1 to 7, and it
\* fails when the run has length 0 or length 8 or more.
C4_PoundRunOneToSeven ==
    HeadingDone =>
        /\ ( /\ IndentLen(src.text) <= 3
             /\ PoundLen(src.text) \in 1..7
             /\ AfterPounds(src.text) # <<>>
             /\ AfterPounds(src.text)[1] = " " )
               => /\ result.ok
                  /\ InputLen(result.val.leading_pounds) = PoundLen(src.text)
        /\ (PoundLen(src.text) = 0 \/ PoundLen(src.text) >= 8) => IsErr(result)
        /\ result.ok => PoundLen(src.text) \in 1..7

\* a heading of seven pounds is accepted
C4_Witness ==
    /\ HeadingDone
    /\ result.ok
    /\ InputLen(result.val.leading_pounds) = 7
    /\ InputLen(result.val.seperate) = 1

C6_SeparatorRequired ==
    HeadingDone =>
        /\ (result.ok /\ ~IsEmpty(result.val.content))
               => ~IsEmpty(result.val.seperate)
        /\ (AfterPounds(src.text) # <<>> /\ AfterPounds(src.text)[1] \notin WhiteSpace)
               => ~result.ok

\* C7: when the text after a pound run of 1 to 7 pounds starts with no
\* whitespace character and the line has no line ending, ATXHeading::parse
\* fails with kind ATXHeading and control flow Recoverable, and, the pound run
\* being behind an accepted indentation of at most 3 columns, with a
\* zero-length span at the offset right after the pound run.
C7_NoSeparatorNoLineEnding ==
        ( /\ HeadingDone
          /\ PoundLen(src.text) \in 1..7
          /\ \/ AfterPounds(src.text) = <<>>
             \/ AfterPounds(src.text)[1] \notin WhiteSpace
          /\ ~StartsWithLineEnding(AfterLine(src.text)) )
            => /\ IsErr(result)
               /\ result.kind = "ATXHeading"
               /\ result.cf = Recovable
               /\ IndentLen(src.text) <= 3 =>
                      result.span
                          = <<src.start + IndentLen(src.text) + PoundLen(src.text),
                              src.start + IndentLen(src.text) + PoundLen(src.text)>>

\* "   #a" is rejected at the offset after the pound
C7_Witness ==
    /\ HeadingDone
    /\ src.text = <<" ", " ", " ", "#", "a">>
    /\ IsErr(result)
    /\ result.span = <<src.start + 4, src.start + 4>>

\* C8: a heading or a thematic break parsed with no line ending is the final
\* line of the document: the remaining input is empty.
C8_NoLineEndingOnlyAtEnd ==
    ( /\ pc = "done"
      /\ rule \in {"ATXHeading", "ThematicBreaks"}
      /\ result.ok
      /\ IsNone(result.val.line_ending) )
        => IsEmpty(input)

-----------------------------------------------------------------------------
(* Fenced code blocks. *)

FenceChars == {BT, "~"}

\* length of the run of one fence character that opens the text
OpenLen(text) ==
    IF text # <<>> /\ text[1] \in FenceChars THEN PrefixLen(text, {text[1]}) ELSE 0

HasOpening(text) == OpenLen(text) >= 3

AfterOpening(text) == SubSeq(text, OpenLen(text) + 1, Len(text))

\* length of the run of the character c that starts at offset k of text
RunLenAt(text, k, c) == PrefixLen(SubSeq(text, k + 1, Len(text)), {c})

\* offsets, in the text after the opening fence, of the runs of the opening
\* fence's character that are at least as long as the opening fence
ClosingRuns(text) ==
    LET rest == AfterOpening(text)
        c == text[1]
    IN {k \in 0..(Len(rest) - 1) :
            /\ rest[k + 1] = c
            /\ k = 0 \/ rest[k] # c
            /\ RunLenAt(rest, k, c) >= OpenLen(text)}

FirstClosing(text) ==
    CHOOSE k \in ClosingRuns(text) : \A j \in ClosingRuns(text) : k <= j

FencedDone == pc = "done" /\ rule = "FencedCodeBlock"

\* C9: the body of a fenced code block is the text between the opening fence
\* and the first later run of the fence character that is at least as long as
\* the opening fence, and that whole run, longer than the opening fence or
\* not, is the closing fence; shorter runs stay in the body.
C9_ClosingAtLeastAsLong ==
    (FencedDone /\ HasOpening(src.text) /\ ClosingRuns(src.text) # {}) =>
        LET n == OpenLen(src.text)
            k == FirstClosing(src.text)
            rest == AfterOpening(src.text)
            m == RunLenAt(rest, k, src.text[1])
        IN /\ result.ok
           /\ result.val.body = MkInput(src.start + n, SubSeq(rest, 1, k))
           /\ result.val.end
                  = Some(MkInput(src.start + n + k, SubSeq(rest, k + 1, k + m)))

\* C10: when no closing run follows the opening fence, FencedCodeBlock::parse
\* succeeds: the body is all the input after the opening fence, there is no
\* closing fence, and the cursor holds no text.
C10_UnterminatedFence ==
    (FencedDone /\ HasOpening(src.text) /\ ClosingRuns(src.text) = {}) =>
        /\ result.ok
        /\ result.val.start
               = MkInput(src.start, SubSeq(src.text, 1, OpenLen(src.text)))
        /\ result.val.body
               = MkInput(src.start + OpenLen(src.text), AfterOpening(src.text))
        /\ IsNone(result.val.end)
        /\ IsEmpty(input)

\* "~~~~a~~~": the run of three tildes stays in the body
C10_Witness ==
    /\ FencedDone
    /\ src.text = <<"~", "~", "~", "~", "a", "~", "~", "~">>
    /\ result.ok
    /\ IsNone(result.val.end)
    /\ result.val.body.text = <<"a", "~", "~", "~">>

-----------------------------------------------------------------------------
(* The fence alone. *)

FenceDone == pc = "done" /\ rule = "Fenced"

\* C11: Fenced::parse succeeds exactly on the inputs that begin with a run of
\* at least three fence characters, all backticks or all tildes, and returns
\* the maximal run of that character; a run of one or two fence characters
\* fails with kind FencedCodeBlock, Recoverable, with the span of the short
\* run.
C11_FenceRunAtLeastThree ==
    FenceDone =>
        /\ result.ok <=> OpenLen(src.text) >= 3
        /\ result.ok =>
            /\ result.val = MkInput(src.start, SubSeq(src.text, 1, OpenLen(src.text)))
            /\ \A k \in 1..Len(result.val.text) : result.val.text[k] = src.text[1]
            /\ input = MkInput(src.start + OpenLen(src.text), AfterOpening(src.text))
        /\ OpenLen(src.text) \in {1, 2} =>
            /\ IsErr(result)
            /\ result.kind = "FencedCodeBlock"
            /\ result.cf = Recovable
            /\ result.span = <<src.start, src.start + OpenLen(src.text)>>

\* a run of two backticks before a tilde has been refused
C11_Witness ==
    /\ FenceDone
    /\ src.text = <<BT, BT, "~">>
    /\ IsErr(result)
    /\ result.span = <<src.start, src.start + 2>>

-----------------------------------------------------------------------------
(* Entities. *)

StartsWithAmp(text) == text # <<>> /\ text[1] = "&"

\* offsets of the semicolons of text
Semis(text) == {k \in 0..(Len(text) - 1) : text[k + 1] = ";"}

\* the first semicolon of text lies within its first n characters
SemiWithin(text, n) == \E k \in Semis(text) : k < n

\* the text from its first character through its first semicolon
Reference(text) ==
    LET k == CHOOSE k \in Semis(text) : \A j \in Semis(text) : k <= j IN
    SubSeq(text, 1, k + 1)

AfterReference(text) == SubSeq(text, Len(Reference(text)) + 1, Len(text))

EntityDone == pc = "done" /\ rule = "Entity"

\* C12: Entity::parse succeeds if and only if the input begins with '&', a
\* ';' terminates the reference within the scan cap, and the exact text from
\* the '&' through the first ';' is in the dictionary, compared with case; a
\* success consumes exactly that text.  A reference that is isolated but is
\* not in the dictionary fails with kind Entity, Fatal, with the span of the
\* isolated text.
C12_KnownReference ==
    EntityDone =>
        LET t == src.text
            shaped == StartsWithAmp(t) /\ SemiWithin(t, 100)
        IN
        /\ result.ok <=> (shaped /\ Reference(t) \in NAMES)
        /\ result.ok =>
            /\ result.val = MkInput(src.start, Reference(t))
            /\ input = MkInput(src.start + Len(Reference(t)), AfterReference(t))
        /\ (shaped /\ Reference(t) \notin NAMES) =>
            /\ IsErr(result)
            /\ result.kind = "Entity"
            /\ result.cf = Fatal
            /\ result.span = <<src.start, src.start + Len(Reference(t))>>

\* "&ap;" has been accepted before more text, which is left to the caller
C12_Witness ==
    /\ EntityDone
    /\ src.text = <<"&", "a", "p", ";", "a">>
    /\ result.ok
    /\ input = MkInput(src.start + 4, <<"a">>)

\* C13: Entity::parse looks for the ';' within a cap of 100 characters only:
\* an isolated candidate is never longer than 100 characters, and whenever
\* the input begins with '&' and no ';' lies within the cap the rule fails
\* with kind Entity, Fatal, with the span [start, start + min(100, remaining
\* length)).
C13_ScanCap ==
    (EntityDone /\ StartsWithAmp(src.text)) =>
        /\ input.start - src.start <= 100
        /\ ~result.ok => result.span[2] - result.span[1] <= 100
        /\ ~SemiWithin(src.text, 100) =>
            /\ IsErr(result)
            /\ result.kind = "Entity"
            /\ result.cf = Fatal
            /\ result.span =
                <<src.start, src.start + Min(100, Len(src.text))>>

\* C14: Entity::parse fails Recoverable, with kind Entity, exactly when the
\* input does not begin with '&', and the cursor is then where it was; every
\* failure of an input that begins with '&' is Fatal.
C14_RecoverableOnlyWithoutAmp ==
    EntityDone =>
        /\ (IsErr(result) /\ result.cf = Recovable) <=> ~StartsWithAmp(src.text)
        /\ ~StartsWithAmp(src.text) =>
            /\ result.kind = "Entity"
            /\ input = src
        /\ (StartsWithAmp(src.text) /\ ~result.ok) =>
            /\ IsErr(result)
            /\ result.kind = "Entity"
            /\ result.cf = Fatal

\* "amp" has been refused, Recoverable, with the cursor where it was
C14_Witness ==
    /\ EntityDone
    /\ src.text = <<"a", "m", "p">>
    /\ IsErr(result)
    /\ result.cf = Recovable
    /\ input = src

-----------------------------------------------------------------------------
(* Backslash escapes. *)

\* the escapable characters and the variant each yields
EscapeName ==
    [c \in {"*", "<", "[", BT, ".", "#", "&", BS} |->
        CASE c = "*" -> "Star" [] c = "<" -> "Lt" [] c = "[" -> "Square"
          [] c = BT -> "Backtick" [] c = "." -> "Dot" [] c = "#" -> "Pound"
          [] c = "&" -> "And" [] c = BS -> "Backslash"]

StartsWithBackslash(text) == text # <<>> /\ text[1] = BS

\* the second character of text is escapable
EscapableNext(text) == Len(text) >= 2 /\ text[2] \in DOMAIN EscapeName

\* a line ending follows the first character of text
LineEndingNext(text) == StartsWithLineEnding(SubSeq(text, 2, Len(text)))

\* a backslash before a character that is not escapable, or before the end
LoneBackslash(text) ==
    /\ StartsWithBackslash(text)
    /\ ~EscapableNext(text)
    /\ ~LineEndingNext(text)

EscapedDone == pc = "done" /\ rule = "Escaped"

\* C15: Escaped::parse succeeds exactly when the input begins with a
\* backslash followed by one of * < [ ` . # & \, yielding that character's
\* variant over exactly 2 bytes, or by a line ending, yielding HardlineBreak
\* over the backslash and the 1-byte LF or the 2-byte CRLF; a backslash
\* followed by any other character or by the end of the input fails
\* Recoverable.
C15_EscapableOrLineEnding ==
    EscapedDone =>
        LET t == src.text IN
        /\ result.ok <=>
            (StartsWithBackslash(t) /\ (EscapableNext(t) \/ LineEndingNext(t)))
        /\ (StartsWithBackslash(t) /\ EscapableNext(t)) =>
            /\ result.ok
            /\ result.val.variant = EscapeName[t[2]]
            /\ result.val.input = MkInput(src.start, SubSeq(t, 1, 2))
            /\ input = MkInput(src.start + 2, SubSeq(t, 3, Len(t)))
        /\ (StartsWithBackslash(t) /\ LineEndingNext(t)) =>
            LET n == IF t[2] = LF THEN 2 ELSE 3 IN
            /\ result.ok
            /\ result.val.variant = "HardlineBreak"
            /\ result.val.input = MkInput(src.start, SubSeq(t, 1, n))
            /\ input = MkInput(src.start + n, SubSeq(t, n + 1, Len(t)))
        /\ LoneBackslash(t) =>
            /\ IsErr(result)
            /\ result.kind = "Escaped"
            /\ result.cf = Recovable

\* a backslash before CR LF has been read as a hard line break of 3 bytes
C15_Witness ==
    /\ EscapedDone
    /\ src.text = <<BS, CR, LF>>
    /\ result.ok
    /\ result.val.variant = "HardlineBreak"
    /\ input.start = src.start + 3

\* C16 as stated: when Escaped::parse fails Recoverable on a backslash
\* followed by a character that is not escapable, or by the end of the
\* input, the cursor after the call is the cursor before the call, same
\* start and same length.
C16_CursorUnchanged ==
    (EscapedDone /\ LoneBackslash(src.text)) =>
        /\ IsErr(result)
        /\ result.cf = Recovable
        /\ input.start = src.start
        /\ InputLen(input) = InputLen(src)

\* C16: when Escaped::parse fails Recoverable on a backslash followed by a
\* character that is not escapable, or by the end of the input, the call
\* leaves the cursor just after the backslash, one byte further than before
\* and one byte shorter; the span of the failure is the whole input from the
\* backslash on.
C16_CursorAfterBackslash ==
    (EscapedDone /\ LoneBackslash(src.text)) =>
        /\ IsErr(result)
        /\ result.cf = Recovable
        /\ input = MkInput(src.start + 1, Tail(src.text))
        /\ InputLen(input) = InputLen(src) - 1
        /\ result.span = <<src.start, src.start + Len(src.text)>>

\* a backslash before a letter has been refused, the cursor on the letter
C16_Witness ==
    /\ EscapedDone
    /\ src.text = <<BS, "a">>
    /\ IsErr(result)
    /\ input = MkInput(src.start + 1, <<"a">>)

-----------------------------------------------------------------------------
(* Line endings. *)

LineEndingDone == pc = "done" /\ rule \in {"LineEnding", "NewLine"}

StartsWithCRLF(text) == Len(text) >= 2 /\ text[1] = CR /\ text[2] = LF

StartsWithLF(text) == Len(text) >= 1 /\ text[1] = LF

\* C17: LineEnding::parse yields CRLF, consuming 2 bytes, when the input
\* begins with "\r\n", and LF, consuming 1 byte, when it begins with "\n";
\* on any other input, a lone '\r' and the empty input included, it fails
\* with the line-ending kind, Recoverable.  The result is the same whether
\* LF is tried first (s.rs) or CRLF is (tokens.rs).
C17_LineEnding ==
    LineEndingDone =>
        LET t == src.text
            kind == IF rule = "LineEnding" THEN "LineEnding" ELSE "NewLine"
            crlf == IF rule = "LineEnding" THEN "CrLf" ELSE "CRLR"
            lf == IF rule = "LineEnding" THEN "LF" ELSE "LR"
        IN
        /\ StartsWithCRLF(t) =>
            /\ result.ok
            /\ result.val = [variant |-> crlf, input |-> MkInput(src.start, <<CR, LF>>)]
            /\ input = MkInput(src.start + 2, SubSeq(t, 3, Len(t)))
        /\ StartsWithLF(t) =>
            /\ result.ok
            /\ result.val = [variant |-> lf, input |-> MkInput(src.start, <<LF>>)]
            /\ input = MkInput(src.start + 1, Tail(t))
        /\ (~StartsWithCRLF(t) /\ ~StartsWithLF(t)) =>
            /\ IsErr(result)
            /\ result.kind = kind
            /\ result.cf = Recovable
            /\ input = src
        /\ LineEnding_parse(src).ok = NewLine_parse(src).ok
        /\ LineEnding_parse(src).rest = NewLine_parse(src).rest

\* the rule that tries LF first has read "\r\n" as one CRLF of 2 bytes
C17_Witness ==
    /\ LineEndingDone
    /\ rule = "LineEnding"
    /\ src.text = <<CR, LF, "a">>
    /\ result.ok
    /\ result.val.variant = "CrLf"
    /\ input.start = src.start + 2

-----------------------------------------------------------------------------
(* Bounded indentation. *)

\* C18: IndentationTo<N>, and LeadingWhiteSpace<N>, consume the maximal
\* leading run of whitespace that breaks no line and succeed if and only if
\* the run is at most N long; a longer run fails with the leading-whitespace
\* kind, Recoverable.  A thematic-break line behind 3 spaces is accepted and
\* the same line behind 4 spaces is refused, Recoverable.
C18_IndentationAtMostN ==
    /\ \A n \in IndentLimits :
        (/\ pc = "done"
         /\ rule \in {IndentationToName(n), LeadingWhiteSpaceName(n)}) =>
            LET len == IndentLen(src.text) IN
            /\ result.ok <=> len <= n
            /\ result.ok =>
                /\ result.val = MkInput(src.start, SubSeq(src.text, 1, len))
                /\ input = MkInput(src.start + len, AfterIndent(src.text))
            /\ len > n =>
                /\ IsErr(result)
                /\ result.kind = "LeadingWhiteSpace"
                /\ result.cf = Recovable
    /\ (ThematicDone /\ AfterIndent(src.text) = <<"*", "*", "*">>) =>
        /\ IndentLen(src.text) <= 3 => result.ok
        /\ IndentLen(src.text) > 3 =>
            /\ IsErr(result)
            /\ result.cf = Recovable

-----------------------------------------------------------------------------
(* Lines of indented code. *)

\* length of the maximal prefix of text that holds no '\r' and no '\n'
ContentLen(text) ==
    CHOOSE n \in 0..Len(text) :
        /\ \A k \in 1..n : text[k] \notin {CR, LF}
        /\ n = Len(text) \/ text[n + 1] \in {CR, LF}

\* length of the line ending that opens text, 0 when there is none
LineEndingLen(text) ==
    IF StartsWithLF(text) THEN 1 ELSE IF StartsWithCRLF(text) THEN 2 ELSE 0

NonblankDone == pc = "done" /\ rule = "IndentedNonblankLine"

BlankDone == pc = "done" /\ rule = "IndentedBlankLine"

\* C19: IndentedNonblankLine::parse succeeds if and only if the line starts
\* with at least 4 columns of whitespace that breaks no line, followed by a
\* non-empty run of characters other than '\r' and '\n', then an optional
\* line ending.  When the indentation is there but the content is empty the
\* rule fails with kind IdentationNonblankChunk, Recoverable, with the span
\* [p, min(p + 2, end of input)), p being the offset just after the
\* indentation.
C19_NonblankLine ==
    NonblankDone =>
        LET t == src.text
            ind == IndentLen(t)
            rest == AfterIndent(t)
            con == ContentLen(rest)
            le == LineEndingLen(SubSeq(rest, con + 1, Len(rest)))
            p == src.start + ind
        IN
        /\ result.ok <=> (ind >= 4 /\ con >= 1)
        /\ result.ok =>
            /\ result.val.identation = MkInput(src.start, SubSeq(t, 1, ind))
            /\ result.val.content = MkInput(p, SubSeq(rest, 1, con))
            /\ IsSome(result.val.line_ending) <=> le > 0
            /\ IsSome(result.val.line_ending) =>
                result.val.line_ending[1].input =
                    MkInput(p + con, SubSeq(rest, con + 1, con + le))
            /\ input = MkInput(p + con + le, SubSeq(rest, con + le + 1, Len(rest)))
        /\ (ind >= 4 /\ con = 0) =>
            /\ IsErr(result)
            /\ result.kind = "IdentationNonblankChunk"
            /\ result.cf = Recovable
            /\ result.span = <<p, Min(p + 2, src.start + Len(t))>>

\* five spaces before a lone LF at the end of the input: the content is
\* empty and the span stops at the end of the input, one byte after p
C19_Witness ==
    /\ NonblankDone
    /\ src.text = Repeat(" ", 5) \o <<LF>>
    /\ IsErr(result)
    /\ result.span = <<src.start + 5, src.start + 6>>

\* C20 as stated: a blank chunk is an optional indentation of at most 3
\* spaces followed by a required line ending: IndentedBlankLine::parse never
\* succeeds with a leading whitespace run longer than 3, and fails
\* Recoverable when no line ending follows the whitespace.
C20_BlankAtMostThree ==
    BlankDone =>
        /\ result.ok => IndentLen(src.text) <= 3
        /\ ~StartsWithLineEnding(AfterIndent(src.text)) =>
            /\ IsErr(result)
            /\ result.cf = Recovable

\* C20: a blank chunk is a run of whitespace of any length, the empty run and
\* runs longer than 3 included, followed by a required line ending:
\* IndentedBlankLine::parse succeeds exactly when a line ending follows the
\* maximal leading run of whitespace that breaks no line, and fails with
\* kind IdentationNonblankChunk, Recoverable, when none does.
C20_BlankAnyWhitespace ==
    BlankDone =>
        LET t == src.text
            ind == IndentLen(t)
            rest == AfterIndent(t)
            le == LineEndingLen(rest)
        IN
        /\ result.ok <=> le > 0
        /\ result.ok =>
            /\ result.val.leading_whitespaces = MkInput(src.start, SubSeq(t, 1, ind))
            /\ result.val.line_ending.input =
                MkInput(src.start + ind, SubSeq(rest, 1, le))
            /\ input = MkInput(src.start + ind + le, SubSeq(rest, le + 1, Len(rest)))
        /\ le = 0 =>
            /\ IsErr(result)
            /\ result.kind = "IdentationNonblankChunk"
            /\ result.cf = Recovable

\* a line of five spaces and a line ending has been read as a blank line
C20_Witness ==
    /\ BlankDone
    /\ src.text = Repeat(" ", 5) \o <<CR, LF>>
    /\ result.ok
    /\ InputLen(result.val.leading_whitespaces) = 5

-----------------------------------------------------------------------------
(* Indented code blocks. *)

\* the slices a chunk holds, in field order
ChunkSlices(c) ==
    IF c.variant = "NonBlank"
    THEN <<c.line.identation, c.line.content>>
            \o (IF IsSome(c.line.line_ending)
                THEN <<c.line.line_ending[1].input>> ELSE <<>>)
    ELSE <<c.line.leading_whitespaces, c.line.line_ending.input>>

\* the slice s is the text of the source at the offsets s carries
ExactSlice(s) ==
    /\ s.start >= src.start
    /\ s.start + Len(s.text) <= src.start + Len(src.text)
    /\ s.text = SubSeq(src.text, s.start - src.start + 1,
                       s.start - src.start + Len(s.text))

ChunkStart(c) == ChunkSlices(c)[1].start

ChunkEnd(c) ==
    LET last == ChunkSlices(c)[Len(ChunkSlices(c))] IN last.start + Len(last.text)

\* the slice s is a line ending
IsLineEnding(s) == s.text \in {<<LF>>, <<CR, LF>>}

\* the chunk is shaped as its variant says
WellClassified(c) ==
    IF c.variant = "NonBlank"
    THEN /\ Len(c.line.identation.text) >= 4
         /\ \A k \in DOMAIN c.line.identation.text : c.line.identation.text[k] = " "
         /\ Len(c.line.content.text) >= 1
         /\ c.line.content.text[1] # " "
         /\ \A k \in DOMAIN c.line.content.text :
                c.line.content.text[k] \notin {CR, LF}
         /\ IsSome(c.line.line_ending) => IsLineEnding(c.line.line_ending[1].input)
    ELSE /\ c.variant = "Blank"
         /\ \A k \in DOMAIN c.line.leading_whitespaces.text :
                c.line.leading_whitespaces.text[k] = " "
         /\ IsLineEnding(c.line.line_ending.input)

\* a chunk, NonBlank or Blank, begins the text
ChunkBegins(text) ==
    LET rest == AfterIndent(text) IN
    \/ IndentLen(text) >= 4 /\ ContentLen(rest) >= 1
    \/ LineEndingLen(rest) > 0

BlockDone == pc = "done" /\ rule = "IndentedCodeBlock"

\* C21: IndentedCodeBlock::parse returns the chunks in source order, one per
\* physical line, each classified NonBlank or Blank; a blank line inside the
\* block is a Blank chunk of the block and does not end it; the indentation,
\* content and line-ending slices of each chunk carry the absolute offsets
\* of the text they matched in the source.
C21_ChunksInOrder ==
    (BlockDone /\ result.ok) =>
        LET chunks == result.val
            n == Len(chunks)
        IN
        /\ \A k \in 1..n :
            /\ WellClassified(chunks[k])
            /\ \A j \in DOMAIN ChunkSlices(chunks[k]) :
                ExactSlice(ChunkSlices(chunks[k])[j])
            /\ \A j \in 1..(Len(ChunkSlices(chunks[k])) - 1) :
                ChunkSlices(chunks[k])[j].start
                        + Len(ChunkSlices(chunks[k])[j].text)
                    = ChunkSlices(chunks[k])[j + 1].start
            /\ ChunkStart(chunks[k]) =
                IF k = 1 THEN src.start ELSE ChunkEnd(chunks[k - 1])
            /\ k < n =>
                IsLineEnding(ChunkSlices(chunks[k])[Len(ChunkSlices(chunks[k]))])
        /\ n > 0 => input.start = ChunkEnd(chunks[n])
        /\ n = 0 => input = src
        /\ input.text =
            SubSeq(src.text, input.start - src.start + 1, Len(src.text))
        /\ ~ChunkBegins(input.text)

\* the block of the test has been read as NonBlank, Blank, Blank, NonBlank,
\* the last chunk's content at offset 16 of the text
C21_Witness ==
    /\ BlockDone
    /\ src.text = InterleavedBlock
    /\ result.ok
    /\ [k \in 1..Len(result.val) |-> result.val[k].variant]
        = <<"NonBlank", "Blank", "Blank", "NonBlank">>
    /\ result.val[4].line.content = MkInput(src.start + 16, <<"a">>)
    /\ IsEmpty(input)

\* C22: an indented code block holds one or more chunks:
\* IndentedCodeBlock::parse never succeeds with an empty list of chunks, and
\* fails on an input whose first line is neither a non-blank indented line
\* nor a blank line, "a" and the empty input included.
C22_AtLeastOneChunk ==
    BlockDone =>
        /\ result.ok => Len(result.val) >= 1
        /\ ~ChunkBegins(src.text) => ~result.ok

-----------------------------------------------------------------------------
(* Nodes, their spans and their slices. *)

NodeRules ==
    {"ThematicBreaks", "ATXHeading", "IndentedNonblankLine", "IndentedBlankLine",
     "IndentedCodeBlock", "Fenced", "FencedCodeBlock", "Escaped", "Entity",
     "LineEnding"}

\* a rule has returned a node
NodeDone == pc = "done" /\ rule \in NodeRules /\ result.ok

\* to_span() of the node that the rule returned
NodeSpan ==
    CASE rule = "ThematicBreaks" -> ThematicBreaks_to_span(result.val)
      [] rule = "ATXHeading" -> ATXHeading_to_span(result.val)
      [] rule = "IndentedNonblankLine" -> IndentedNonblankLine_to_span(result.val)
      [] rule = "IndentedBlankLine" -> IndentedBlankLine_to_span(result.val)
      [] rule = "IndentedCodeBlock" -> IndentedCodeBlock_to_span(result.val)
      [] rule = "Fenced" -> Fenced_to_span(result.val)
      [] rule = "FencedCodeBlock" -> FencedCodeBlock_to_span(result.val)
      [] rule = "Escaped" -> Escaped_to_span(result.val)
      [] rule = "Entity" -> Entity_to_span(result.val)
      [] rule = "LineEnding" -> LineEnding_to_span(result.val)

OptLineEndingSlices(o) == IF IsNone(o) THEN <<>> ELSE <<o[1].input>>

RECURSIVE PairsSlices(_)
PairsSlices(pairs) ==
    IF pairs = <<>> THEN <<>>
    ELSE <<pairs[1][1].input, pairs[1][2]>> \o PairsSlices(Tail(pairs))

RECURSIVE ChunksSlices(_)
ChunksSlices(chunks) ==
    IF chunks = <<>> THEN <<>>
    ELSE ChunkSlices(chunks[1]) \o ChunksSlices(Tail(chunks))

\* the slices the node holds, in field order
NodeSlices ==
    LET n == result.val IN
    CASE rule = "ThematicBreaks" ->
            <<n.ident_whitespaces>> \o PairsSlices(n.breaks.pairs)
                \o (IF IsNone(n.breaks.tail) THEN <<>> ELSE <<n.breaks.tail[1].input>>)
                \o OptLineEndingSlices(n.line_ending)
      [] rule = "ATXHeading" ->
            <<n.ident_whitespaces, n.leading_pounds, n.seperate, n.content>>
                \o OptLineEndingSlices(n.line_ending)
      [] rule = "IndentedNonblankLine" ->
            <<n.identation, n.content>> \o OptLineEndingSlices(n.line_ending)
      [] rule = "IndentedBlankLine" -> <<n.leading_whitespaces, n.line_ending.input>>
      [] rule = "IndentedCodeBlock" -> ChunksSlices(n)
      [] rule = "Fenced" -> <<n>>
      [] rule = "FencedCodeBlock" ->
            <<n.start, n.body>> \o (IF IsNone(n.end) THEN <<>> ELSE <<n.end[1]>>)
      [] rule = "Escaped" -> <<n.input>>
      [] rule = "Entity" -> <<n>>
      [] rule = "LineEnding" -> <<n.input>>

RECURSIVE SlicesLen(_)
SlicesLen(slices) ==
    IF slices = <<>> THEN 0 ELSE Len(slices[1].text) + SlicesLen(Tail(slices))

RECURSIVE SlicesText(_)
SlicesText(slices) ==
    IF slices = <<>> THEN <<>> ELSE slices[1].text \o SlicesText(Tail(slices))

\* the span sp is the range [a, b); Span::None stands for an empty range
SpanIs(sp, a, b) == IF sp = NoSpan THEN a = b ELSE sp = <<a, b>>

\* each slice begins where the one before it ends, the first at offset a
Adjacent(slices, a) ==
    \A k \in DOMAIN slices :
        slices[k].start =
            IF k = 1 THEN a ELSE slices[k - 1].start + Len(slices[k - 1].text)

\* C23: span coverage: for every node a successful parse returns, to_span()
\* is the byte range from the cursor's start before the parse to that start
\* plus the number of bytes consumed, and the spans of its fields are
\* adjacent, without overlap or gap, the separator and the line ending
\* included.
C23_SpanCoverage ==
    NodeDone =>
        /\ SpanIs(NodeSpan, src.start, src.start + SlicesLen(NodeSlices))
        /\ Adjacent(NodeSlices, src.start)

\* C24: round trip: for every node a successful parse returns, the texts of
\* the slices it holds, concatenated in field order, are the substring of
\* the source that to_span() of the node designates.
C24_RoundTrip ==
    NodeDone =>
        LET sp == IF NodeSpan = NoSpan THEN <<src.start, src.start>> ELSE NodeSpan IN
        SlicesText(NodeSlices)
            = SubSeq(src.text, sp[1] - src.start + 1, sp[2] - src.start)

-----------------------------------------------------------------------------
(* The alternation of the chunks. *)

ChunkDone == pc = "done" /\ rule = "IdentedChunk"

\* the indentation of a non-blank line is there, its content is not, and a
\* line ending follows: NonBlank fails after the indentation, Blank matches
BlankBehindIndentation(text) ==
    /\ IndentLen(text) >= 4
    /\ LineEndingLen(AfterIndent(text)) > 0

\* C25: when the NonBlank alternative fails Recoverable after it consumed
\* the indentation, as on a line of 5 spaces and a line ending, the Blank
\* alternative is tried from the cursor of the call and the result is the
\* one of Blank alone; and when both alternatives fail on a line,
\* IndentedCodeBlock stops with the cursor at the start of that line, none
\* of it consumed.
C25_AlternationDiscipline ==
    /\ (ChunkDone /\ BlankBehindIndentation(src.text)) =>
        LET ind == IndentLen(src.text)
            le == LineEndingLen(AfterIndent(src.text))
        IN
        /\ result.ok
        /\ result.val.variant = "Blank"
        /\ result.val.line.leading_whitespaces
            = MkInput(src.start, SubSeq(src.text, 1, ind))
        /\ result.val.line.line_ending.input
            = MkInput(src.start + ind, SubSeq(src.text, ind + 1, ind + le))
        /\ input
            = MkInput(src.start + ind + le, SubSeq(src.text, ind + le + 1, Len(src.text)))
    /\ (BlockDone /\ result.ok) =>
        LET used == SlicesLen(ChunksSlices(result.val)) IN
        /\ input = MkInput(src.start + used, SubSeq(src.text, used + 1, Len(src.text)))
        /\ ~ChunkBegins(input.text)
        /\ \A k \in DOMAIN result.val :
            result.val[k].variant = "Blank" =>
                ChunkSlices(result.val[k])[1].start
                    = IF k = 1 THEN src.start ELSE ChunkEnd(result.val[k - 1])

\* a line of 5 spaces and LF, on which NonBlank fails behind the
\* indentation, has been read as a Blank chunk that begins at the cursor of
\* the call
C25_Witness ==
    /\ ChunkDone
    /\ src.text = Repeat(" ", 5) \o <<LF>>
    /\ ~IndentedNonblankLine_parse(src).ok
    /\ IndentedNonblankLine_parse(src).rest.start = src.start + 5
    /\ result.ok
    /\ result.val.variant = "Blank"
    /\ result.val.line.leading_whitespaces = MkInput(src.start, Repeat(" ", 5))

-----------------------------------------------------------------------------
(* The closing fence and the cursor after a success. *)

\* C26: on every input, when FencedCodeBlock::parse finds a closing fence
\* its length is the opening fence's length: the assertion that the two
\* lengths are equal holds on every execution and FencedCodeBlock::parse
\* never panics, also when the first later occurrence of the opening
\* fence's text begins a longer run of the same character.
C26_ClosingFenceSameLength ==
    FencedDone =>
        /\ result.ok \/ IsErr(result)
        /\ (result.ok /\ IsSome(result.val.end)) =>
            InputLen(result.val.end[1]) = InputLen(result.val.start)

\* C27: after every successful parse of every rule the cursor begins where
\* the consumed text ends: its start is the start before the parse plus the
\* total length of the slices the node holds, its end is the end before the
\* parse, and what it holds is the rest of the source; this includes the
\* FencedCodeBlock without a closing fence and Fenced.
C27_CursorAfterSuccess ==
    NodeDone =>
        LET used == SlicesLen(NodeSlices) IN
        /\ input.start = src.start + used
        /\ input.start >= src.start
        /\ InputEnd(input) = InputEnd(src)
        /\ input.text = SubSeq(src.text, used + 1, Len(src.text))

-----------------------------------------------------------------------------
(* Making an error fatal. *)

\* C28: into_fatal changes only the control flow: for every error value e,
\* into_fatal(e) has the control flow Fatal, the span of e and the variant
\* of e, for each of Kind, S, LineEnding, LeadingWhiteSpace, LeadingPounds,
\* Escaped, Entity and Thematic.
C28_IntoFatalOnlyControlFlow ==
    [][IntoFatal =>
        /\ MarkDownError_control_flow(result') = Fatal
        /\ MarkDownError_span(result') = MarkDownError_span(result)
        /\ result'.kind = result.kind]_vars

====
